---- MODULE Spec2Model ----
(***************************************************************************)
(* A model of the block preprocessor of the HTTP DSL interpreter           *)
(* (HTTPDSLv3.ParseWithBlockSupport, ProcessLoopBody,                      *)
(* ProcessIfBlockWithControl), of the statement actions it dispatches to   *)
(* (set, extract, break, continue, reset, HTTP requests) and of the part   *)
(* of HTTPEngine those actions use (the last-response snapshot).           *)
(*                                                                         *)
(* A script is a sequence of lines.  A line is a record: its kind stands   *)
(* for the textual tests the code makes on it (HasPrefix / HasSuffix /     *)
(* equality after TrimSpace), its other fields are the pieces of text the  *)
(* code cuts out of it (strings.Fields of a condition, the operands of an  *)
(* expression, a repeat count).  The recursion of the Go functions is an   *)
(* explicit stack of frames; one action is one step of one function.       *)
(***************************************************************************)
EXTENDS Integers, Sequences, FiniteSets, TLC

VARIABLES
  sid,        \* the name of the script handed to ParseWithBlockSupport
  code,       \* its lines
  stack,      \* call stack: frames of ParseWithBlockSupport / ProcessLoopBody
  variables,  \* hd.variables
  context,    \* hd.context: the "break" and "continue" flags
  engine,     \* hd.engine: last-response snapshot
  ret,        \* what the function that returned last gave its caller
  outcome,    \* "idle", "running", "ok" (nil error), "error", "trap"
  failure,    \* the error the top-level call returned
  lastExec,   \* history: the last statement dispatched to the grammar
  hist        \* history: what has happened so far (requests, if evaluations)

vars == <<sid, code, stack, variables, context, engine, ret, outcome, failure, lastExec, hist>>

----------------------------------------------------------------------------
(* Program constants *)

\* maxIterations := 1000 // Safety limit
maxIterations == 1000

\* Timeout: 30 * time.Second, in milliseconds
DefaultTimeout == 30000

----------------------------------------------------------------------------
(* Values: float64 / int numbers and strings held in hd.variables *)

\* A text is a sequence of pieces p: "$", the parts of names, and other words;
\* no piece is a part of another.  s is the text when it is one word or empty.
Num(n) == [t |-> "num", n |-> n, s |-> "", p |-> <<>>]
Str(s) == [t |-> "str", n |-> 0, s |-> s, p |-> IF s = "" THEN <<>> ELSE <<s>>]
Undef  == [t |-> "undef", n |-> 0, s |-> "", p |-> <<>>]

\* The string value with pieces p.
Text(p) == IF p = <<>> THEN Str("")
           ELSE IF Len(p) = 1 /\ p[1] # "$" THEN Str(p[1])
           ELSE [t |-> "str", n |-> 0, s |-> "*", p |-> p]

\* fmt.Sprintf("%v", value)
Stringify(v) == IF v.t = "num" THEN <<ToString(v.n)>> ELSE v.p

\* Decimal texts that the model's strings can hold, with the number they read as.
NumText == [x \in {"0", "1", "2", "3", "4", "5", "10"} |->
              CASE x = "0" -> 0 [] x = "1" -> 1 [] x = "2" -> 2
                [] x = "3" -> 3 [] x = "4" -> 4 [] x = "5" -> 5 [] OTHER -> 10]

\* Pieces of text cut out of a line by strings.Fields.
TVar(name) == [k |-> "var",  s |-> name, n |-> 0, p |-> <<>>]   \* $name
TNum(n)    == [k |-> "num",  s |-> "",   n |-> n, p |-> <<>>]   \* 42
TWord(w)   == [k |-> "word", s |-> w,    n |-> 0, p |-> <<>>]   \* a bare word or operator
TQuoted(w) == [k |-> "qstr", s |-> w,    n |-> 0,               \* "text", quotes included
               p |-> IF w = "" THEN <<>> ELSE <<w>>]
TText(p)   == [k |-> "qstr", s |-> "*",  n |-> 0, p |-> p]      \* "text" of several pieces

\* An expression of `set`: a single value or  value ARITHMETIC value.
NoTok == TWord("")
Expr1(a)        == [l |-> a, op |-> "", r |-> NoTok]
Expr2(a, op, b) == [l |-> a, op |-> op, r |-> b]

----------------------------------------------------------------------------
(* Lines *)

\* (hd: the number of header options on a request line.)
Ln(k) == [k |-> k, c |-> <<>>, v |-> "", e |-> Expr1(NoTok), n |-> 0,
          a |-> <<>>, items |-> <<>>, ind |-> FALSE, own |-> {}, x |-> "", hd |-> 0]

Blank            == Ln("blank")
Comment          == Ln("comment")
Break            == Ln("break")
Continue         == Ln("continue")
Else             == Ln("else")
Endif            == Ln("endif")
Endloop          == Ln("endloop")
Reset            == Ln("reset")
Set(v, e)        == [Ln("set") EXCEPT !.v = v, !.e = e]
SetIn(v, e, own) == [Ln("set") EXCEPT !.v = v, !.e = e, !.own = own]
If(id, c)        == [Ln("if") EXCEPT !.c = c, !.x = id]
While(c)         == [Ln("while") EXCEPT !.c = c]
Repeat(n)        == [Ln("repeat") EXCEPT !.n = n]
\* foreach $v in [ ... ] do, its: the texts between the commas, each without
\* the blanks and quotes around it
Foreach(v, its)  == [Ln("foreach") EXCEPT !.v = v, !.items = its]
Get              == Ln("http")
GetTimeout(ms)   == [Ln("http") EXCEPT !.n = ms]     \* GET "url" timeout <ms> ms
GetHeaders(n)    == [Ln("http") EXCEPT !.hd = n]     \* GET "url" header .. header ..
Header           == [Ln("header") EXCEPT !.ind = TRUE]
Extract(kind, v) == [Ln("extract") EXCEPT !.x = kind, !.v = v]
PrintStr(p)      == [Ln("print") EXCEPT !.e = Expr1(TText(p))]
PrintVar(v)      == [Ln("print") EXCEPT !.e = Expr1(TVar(v))]
\* if C then S endif, on one line
IfThenEndif(c, s) == [Ln("if1") EXCEPT !.c = c, !.a = <<s>>]
AssertStatus(n)  == [Ln("assert") EXCEPT !.x = "status", !.n = n]
AssertContains(w, own) ==
  [Ln("assert") EXCEPT !.x = "contains", !.e = Expr1(TQuoted(w)), !.own = own]
IfElse(c, s1, s2) == [Ln("ifelse") EXCEPT !.c = c, !.a = <<s1, s2>>]

Cmp(l, op, r) == <<l, TWord(op), r>>
\* Two comparisons with a word between them: `C1 and C2`, `C1 OR C2`, ...
Both(c1, w, c2) == c1 \o <<TWord(w)>> \o c2

----------------------------------------------------------------------------
(* The variable store *)

VarNames == {"i", "n", "x", "a", "b", "s", "v", "num", "user", "user_id", "after", "done", "t", "u",
             "_index", "_iteration"}

NoVariables == [name \in VarNames |-> Undef]

\* val, ok := hd.variables[name]
Has(V, name) == name \in DOMAIN V /\ V[name].t # "undef"

\* hd.SetVariable(name, value) / hd.variables[name] = value
SetVar(V, name, value) == [V EXCEPT ![name] = value]

\* The keys of hd.variables
Defined(V) == {name \in DOMAIN V : V[name].t # "undef"}

\* The pieces of a variable's name.
NameAtoms(name) == IF name = "user_id" THEN <<"user", "_id">> ELSE <<name>>

IsPrefix(a, s) == Len(a) <= Len(s) /\ SubSeq(s, 1, Len(a)) = a

\* strings.ReplaceAll(s, old, new), old not empty
RECURSIVE ReplaceAll(_, _, _)
ReplaceAll(s, old, new) ==
  IF s = <<>> THEN <<>>
  ELSE IF IsPrefix(old, s)
  THEN new \o ReplaceAll(SubSeq(s, Len(old) + 1, Len(s)), old, new)
  ELSE <<Head(s)>> \o ReplaceAll(Tail(s), old, new)

\* The loop of expandVariables over the map, visited in the order ord,
\* from the k-th name on.
RECURSIVE ExpandFrom(_, _, _, _)
ExpandFrom(s, V, ord, k) ==
  IF k > Len(ord) THEN s
  ELSE ExpandFrom(ReplaceAll(s, <<"$">> \o NameAtoms(ord[k]), Stringify(V[ord[k]])),
                  V, ord, k + 1)

\* expandVariables(s), when `range hd.variables` visits the names in the order ord
expandVariables(s, V, ord) == ExpandFrom(s, V, ord, 1)

\* The orders in which `range` can visit a set of keys.
Orders(S) ==
  {f \in [1..Cardinality(S) -> S] : \A j, k \in DOMAIN f : f[j] = f[k] => j = k}

----------------------------------------------------------------------------
(* Numbers in text *)

\* fmt.Sscanf(text, "%f", &num): whether it succeeds, and the number read.
ScansAsNumber(v) == v.t = "num" \/ (v.t = "str" /\ v.s \in DOMAIN NumText)
ScannedNumber(v) == IF v.t = "num" THEN v.n
                    ELSE IF v.t = "str" /\ v.s \in DOMAIN NumText THEN NumText[v.s]
                    ELSE 0

\* The Go string a piece of condition text is, as a value.
\* A number literal is the text of that number; a quoted literal keeps its quotes.
TokText(tok) == CASE tok.k = "num"  -> Num(tok.n)
                  [] tok.k = "qstr" -> [t |-> "quoted", n |-> 0, s |-> tok.s,
                                        p |-> <<"\"">> \o tok.p \o <<"\"">>]
                  [] OTHER          -> Str(tok.s)

\* The name strings.TrimPrefix(part, "$") yields: the variable's name, or a text
\* that no script variable is called (a literal).
TokName(tok) == IF tok.k = "var" THEN tok.s ELSE "<literal>"

\* Lexicographic order of the texts that are not numbers.
WordOrder == <<"", "N", "Y", "a", "abc", "b", "ok", "x", "y", "z">>
WordRank(w) == IF \E k \in 1..Len(WordOrder) : WordOrder[k] = w
               THEN CHOOSE k \in 1..Len(WordOrder) : WordOrder[k] = w
               ELSE Len(WordOrder) + 1
\* Texts by first byte: "" < '"' (0x22) < digits < letters.
TextClass(v) == CASE v.t = "quoted"          -> 1
                  [] ScansAsNumber(v)        -> 2
                  [] v.s = ""                -> 0
                  [] OTHER                   -> 3
TextLess(a, b) ==
  IF TextClass(a) # TextClass(b) THEN TextClass(a) < TextClass(b)
  ELSE IF TextClass(a) = 2 THEN FALSE
  ELSE WordRank(a.s) < WordRank(b.s)
TextEqual(a, b) ==
  IF ScansAsNumber(a) \/ ScansAsNumber(b) THEN FALSE
  ELSE a.p = b.p

NumCompare(l, op, r) ==
  CASE op = ">"  -> l > r
    [] op = "<"  -> l < r
    [] op = ">=" -> l >= r
    [] op = "<=" -> l <= r
    [] op = "==" -> l = r
    [] op = "!=" -> l # r
    [] OTHER     -> FALSE

\* CompareValues: numeric when both sides scan as numbers, else on the texts.
\* (The text comparison is reached only when a side is no number.)
CompareValues(left, op, right) ==
  IF ScansAsNumber(left) /\ ScansAsNumber(right) /\ op \in {">", "<", ">=", "<=", "==", "!="}
  THEN NumCompare(ScannedNumber(left), op, ScannedNumber(right))
  ELSE CASE op = "==" -> TextEqual(left, right)
         [] op = "!=" -> ~TextEqual(left, right)
         [] op = ">"  -> TextLess(right, left)
         [] op = "<"  -> TextLess(left, right)
         [] op = ">=" -> ~TextLess(left, right)
         [] op = "<=" -> ~TextLess(right, left)
         [] OTHER     -> FALSE

\* The truthiness switch of the single-variable condition.
Truthy(v) == CASE v.t = "num" -> v.n # 0
               [] v.t = "str" -> v.s \notin {"", "0", "false"}
               [] OTHER       -> FALSE

EvaluateSimpleCondition(parts, V) ==
  IF Len(parts) = 1
  THEN Has(V, TokName(parts[1])) /\ Truthy(V[TokName(parts[1])])
  ELSE IF Len(parts) # 3 THEN FALSE
  ELSE LET l == parts[1]
           r == parts[3]
           lok == l.k # "var" \/ Has(V, l.s)
           rok == r.k # "var" \/ Has(V, r.s)
           lv == IF l.k = "var" THEN V[l.s] ELSE TokText(l)
           rv == IF r.k = "var" THEN V[r.s] ELSE TokText(r)
       IN lok /\ rok /\ CompareValues(lv, parts[2].s, rv)

\* strings.Contains(conditionStr, " AND "): the word stands between two others.
HasWord(c, w) == \E k \in 2..(Len(c) - 1) : c[k] = TWord(w)

\* strings.Split(conditionStr, " AND "), each part trimmed and cut into fields.
RECURSIVE SplitOn(_, _)
SplitOn(c, w) ==
  IF ~HasWord(c, w) THEN <<c>>
  ELSE LET k == CHOOSE j \in 2..(Len(c) - 1) :
                  c[j] = TWord(w) /\ \A m \in 2..(j - 1) : c[m] # TWord(w)
       IN <<SubSeq(c, 1, k - 1)>> \o SplitOn(SubSeq(c, k + 1, Len(c)), w)

\* Variant: the condition is split on " AND " first and on " OR " inside.
EvaluateConditionRun_AndFirst(c, V) ==
  [val |-> \A k \in 1..Len(SplitOn(c, "AND")) :
             \E m \in 1..Len(SplitOn(SplitOn(c, "AND")[k], "OR")) :
               EvaluateSimpleCondition(SplitOn(SplitOn(c, "AND")[k], "OR")[m], V),
   seen |-> <<>>]

\* The loop over the parts of a condition split on " AND ", from the k-th on:
\* the first part that is false ends it.  val is the result, seen the simple
\* conditions evaluated so far, in the order of their evaluation.
RECURSIVE AndLoop(_, _, _, _)
AndLoop(parts, k, V, seen) ==
  IF k > Len(parts) THEN [val |-> TRUE, seen |-> seen]
  ELSE IF ~EvaluateSimpleCondition(parts[k], V)
  THEN [val |-> FALSE, seen |-> Append(seen, parts[k])]
  ELSE AndLoop(parts, k + 1, V, Append(seen, parts[k]))

\* EvaluateCondition of a text without " OR "
EvaluateAndRun(c, V, seen) ==
  IF HasWord(c, "AND")
  THEN AndLoop(SplitOn(c, "AND"), 1, V, seen)
  ELSE [val |-> EvaluateSimpleCondition(c, V), seen |-> Append(seen, c)]

EvaluateAnd(c, V) == EvaluateAndRun(c, V, <<>>).val

\* The loop over the parts of a condition split on " OR ", from the k-th on:
\* the first part that is true ends it.
RECURSIVE OrLoop(_, _, _, _)
OrLoop(parts, k, V, seen) ==
  IF k > Len(parts) THEN [val |-> FALSE, seen |-> seen]
  ELSE LET r == EvaluateAndRun(parts[k], V, seen)
       IN IF r.val THEN [val |-> TRUE, seen |-> r.seen]
          ELSE OrLoop(parts, k + 1, V, r.seen)

\* EvaluateCondition, with the simple conditions it evaluates
EvaluateConditionRun(c, V) ==
  IF HasWord(c, "OR")
  THEN OrLoop(SplitOn(c, "OR"), 1, V, <<>>)
  ELSE EvaluateAndRun(c, V, <<>>)

EvaluateCondition(c, V) == EvaluateConditionRun(c, V).val

\* The comparison written out in the `while` header: the left part is always
\* taken for a variable name, the right part is always scanned as a number.
ScanLiteral(tok) == IF tok.k = "num" THEN tok.n ELSE 0

WhileCondition(c, V) ==
  /\ Len(c) = 3
  /\ Has(V, TokName(c[1]))
  /\ NumCompare(ScannedNumber(V[TokName(c[1])]), c[2].s, ScanLiteral(c[3]))

\* The same comparison written out for the one-line if/then/else.
InlineIfCondition(c, V) ==
  /\ Len(c) = 3
  /\ Has(V, TokName(c[1]))
  /\ NumCompare(ScannedNumber(V[TokName(c[1])]), c[2].s, ScanLiteral(c[3]))

----------------------------------------------------------------------------
(* Errors.  brk / cont: the message contains the word "break" / "continue". *)

NoErr == [is |-> FALSE, kind |-> "", brk |-> FALSE, cont |-> FALSE]
Err(kind) == [is |-> TRUE, kind |-> kind, brk |-> FALSE, cont |-> FALSE]

\* strings.Contains(s, sub) on the texts of the model, none of which is a
\* proper part of another.
Contains(s, sub) == sub = "" \/ s = sub

\* fmt.Errorf("... '%s'", text): an error whose message quotes a text.
ErrQuoting(kind, text) ==
  [is |-> TRUE, kind |-> kind,
   brk |-> Contains(text, "break"), cont |-> Contains(text, "continue")]

----------------------------------------------------------------------------
(* HTTPEngine: the last-response snapshot *)

\* (timeout: he.client.Timeout, in milliseconds)
NewHTTPEngine == [body |-> "", status |-> 0, hasResp |-> FALSE, timeout |-> DefaultTimeout]

\* What the network can do with one request: fail (connection, timeout, DNS)
\* or deliver a response.
\* (ord: the order in which the statement's expandVariables visits the map.)
NetFail == [ok |-> FALSE, status |-> 0, body |-> "", ord |-> <<>>]
Responses == { [ok |-> TRUE, status |-> 200, body |-> "ok", ord |-> <<>>],
               [ok |-> TRUE, status |-> 200, body |-> "no", ord |-> <<>>],
               [ok |-> TRUE, status |-> 204, body |-> "", ord |-> <<>>],
               [ok |-> TRUE, status |-> 500, body |-> "oops", ord |-> <<>>] }
NetOutcomes == Responses \cup {NetFail}

\* HTTPEngine.Request: on a transport error it returns (nil, error) before the
\* snapshot is touched; otherwise it stores body and status.
\* A timeout option (timeout # 0) is stored in the client before the request.
Request(E, timeout, o) ==
  LET T == IF timeout # 0 THEN [E EXCEPT !.timeout = timeout] ELSE E
  IN IF ~o.ok
     THEN [E |-> T, err |-> Err("request failed")]
     ELSE [E |-> [T EXCEPT !.body = o.body, !.status = o.status, !.hasResp = TRUE],
           err |-> NoErr]

\* HTTPEngine.Extract: "status" gives lastStatusCode; the other kinds read the
\* body (nil when nothing matches).
EngineExtract(E, kind) ==
  IF kind = "status" THEN Num(E.status)
  ELSE IF E.body = "ok" THEN Str("ok") ELSE Undef

\* HTTPEngine.Reset
EngineReset(E) == [body |-> "", status |-> 0, hasResp |-> FALSE, timeout |-> DefaultTimeout]

\* he.lastResponseBody, as GetLastResponse returns it
GetLastResponse(E) == E.body

----------------------------------------------------------------------------
(* The statement actions of the grammar, as ParseWithContext runs them.     *)
(* Each gives the new store, context and engine, the error and the result.  *)

NoContext == [break |-> FALSE, continue |-> FALSE]

\* (p: the text returned, for the statements that return one.)
Res(V, C, E, err, out) ==
  [V |-> V, C |-> C, E |-> E, err |-> err, out |-> out, p |-> <<>>]

\* valueString / valueNumber / valueVariable
ValueOk(tok, V) == tok.k # "var" \/ Has(V, tok.s)
Value(tok, V, ord) == CASE tok.k = "var"  -> V[tok.s]
                        [] tok.k = "num"  -> Num(tok.n)
                        [] OTHER          -> Text(expandVariables(tok.p, V, ord))

\* toNumber: numbers as they are, numeric strings parsed, anything else 0.
toNumber(v) == ScannedNumber(v)

\* arithmeticOp
ArithOk(op, l, r) == op \in {"+", "-", "*"} \/ (op = "/" /\ toNumber(r) # 0)
Arith(op, l, r) ==
  CASE op = "+" -> Num(toNumber(l) + toNumber(r))
    [] op = "-" -> Num(toNumber(l) - toNumber(r))
    [] op = "*" -> Num(toNumber(l) * toNumber(r))
    [] OTHER    -> Num(toNumber(l) \div toNumber(r))

\* Variant: a division by zero is an error, and the variable is set to 0.
setVariable_Assigns(line, V, C, E, ord) ==
  LET e == line.e
      l == Value(e.l, V, ord)
      r == Value(e.r, V, ord)
  IN IF ~ValueOk(e.l, V) \/ (e.op # "" /\ ~ValueOk(e.r, V))
     THEN Res(V, C, E, Err("variable not found"), "")
     ELSE IF e.op = "" THEN Res(SetVar(V, line.v, l), C, E, NoErr, "set")
     ELSE IF ~ArithOk(e.op, l, r)
     THEN Res(SetVar(V, line.v, Num(0)), C, E, Err("division by zero"), "")
     ELSE Res(SetVar(V, line.v, Arith(e.op, l, r)), C, E, NoErr, "set")

\* setVariable, with the expression actions that feed it
setVariable(line, V, C, E, ord) ==
  LET e == line.e
      l == Value(e.l, V, ord)
      r == Value(e.r, V, ord)
  IN IF ~ValueOk(e.l, V) \/ (e.op # "" /\ ~ValueOk(e.r, V))
     THEN Res(V, C, E, Err("variable not found"), "")
     ELSE IF e.op = "" THEN Res(SetVar(V, line.v, l), C, E, NoErr, "set")
     ELSE IF ~ArithOk(e.op, l, r)
     THEN Res(V, C, E, Err("division by zero"), "")
     ELSE Res(SetVar(V, line.v, Arith(e.op, l, r)), C, E, NoErr, "set")

\* printVariable
printVariable(line, V, C, E) ==
  LET varName == line.e.l.s
  IN [Res(V, C, E, NoErr, "printed") EXCEPT
        !.p = IF Has(V, varName)
              THEN <<"$", varName, " = ">> \o Stringify(V[varName])
              ELSE <<"Variable ", "$", varName, " not found">>]

\* printString
printString(line, V, C, E, ord) ==
  [Res(V, C, E, NoErr, "printed") EXCEPT !.p = expandVariables(line.e.l.p, V, ord)]

\* breakCmd / continueCmd
breakCmd(V, C, E)    == Res(V, [C EXCEPT !.break = TRUE], E, NoErr, "break")
continueCmd(V, C, E) == Res(V, [C EXCEPT !.continue = TRUE], E, NoErr, "continue")

\* Variant: extraction without a response is an error.
extractVariable_Fails(line, V, C, E) ==
  IF GetLastResponse(E) = ""
  THEN Res(V, C, E, Err("no response"), "")
  ELSE Res(SetVar(V, line.v, EngineExtract(E, line.x)), C, E, NoErr, "extracted")

\* extractVariable / extractVariableNoPattern
extractVariable(line, V, C, E) ==
  IF GetLastResponse(E) = ""
  THEN Res(SetVar(V, line.v, Str("")), C, E, NoErr, "warning")
  ELSE LET value == EngineExtract(E, line.x)
       IN Res(SetVar(V, line.v, IF value = Undef THEN Str("") ELSE value),
              C, E, NoErr, "extracted")

\* assertStatus
assertStatus(line, V, C, E) ==
  IF E.status = line.n
  THEN Res(V, C, E, NoErr, "passed")
  ELSE Res(V, C, E, Err("assertion failed"), "")

\* assertContains
assertContains(line, V, C, E, ord) ==
  LET expected == Text(expandVariables(line.e.l.p, V, ord)).s
  IN IF Contains(GetLastResponse(E), expected)
     THEN Res(V, C, E, NoErr, "passed")
     ELSE Res(V, C, E, ErrQuoting("assertion failed", expected), "")

\* resetCmd
resetCmd(V, C, E) == Res(NoVariables, NoContext, EngineReset(E), NoErr, "reset")

\* httpSimple / httpWithOptions
httpRequest(line, V, C, E, o) ==
  LET r == Request(E, line.n, o)
  IN Res(V, C, r.E, r.err, IF r.err.is THEN "" ELSE "response")

\* The rule `statement`, by the rule the line reduces with; a line that is no
\* statement of the grammar is a parse error.
Statement(line, V, C, E, o) ==
  CASE line.k = "set"      -> setVariable(line, V, C, E, o.ord)
    [] line.k = "print" /\ line.e.l.k = "var" -> printVariable(line, V, C, E)
    [] line.k = "print"    -> printString(line, V, C, E, o.ord)
    [] line.k = "break"    -> breakCmd(V, C, E)
    [] line.k = "continue" -> continueCmd(V, C, E)
    [] line.k = "extract"  -> extractVariable(line, V, C, E)
    [] line.k = "reset"    -> resetCmd(V, C, E)
    [] line.k = "assert" /\ line.x = "status"   -> assertStatus(line, V, C, E)
    [] line.k = "assert" /\ line.x = "contains" -> assertContains(line, V, C, E, o.ord)
    [] line.k = "http"     -> httpRequest(line, V, C, E, o)
    [] OTHER               -> Res(V, C, E, Err("parse error"), "")

\* ifBlock: the statement between then and endif is reduced, and its action
\* run, while the line is parsed; the action of the conditional gets its result
\* and returns it or nil by the condition.
ifBlock(line, V, C, E, o) == Statement(line.a[1], V, C, E, o)

\* hd.dsl.Parse(input)
ParseWithContext(line, V, C, E, o) ==
  IF line.k = "if1" THEN ifBlock(line, V, C, E, o) ELSE Statement(line, V, C, E, o)

----------------------------------------------------------------------------
(* Scripts.  `own` on a statement names the if blocks it is written in and  *)
(* the branch of each, by the block's label; it is read by no action.       *)

I      == TVar("i")
Inc(v) == Set(v, Expr2(TVar(v), "+", TNum(1)))
Lit(v, n) == Set(v, Expr1(TNum(n)))

\* The comparisons $a == 1, $b == 1, $x == 1
CondA == Cmp(TVar("a"), "==", TNum(1))
CondB == Cmp(TVar("b"), "==", TNum(1))
CondC == Cmp(TVar("x"), "==", TNum(1))

\* With $a, $b, $x set to a, b, x: if A, `$a == 1 AND $b == 1 OR $x == 1`, and
\* if B, `$a == 1 OR $b == 1 AND $x == 1`
PrecLines(a, b, x) ==
  << Lit("a", a), Lit("b", b), Lit("x", x),
     If("A", Both(Both(CondA, "AND", CondB), "OR", CondC)),
       SetIn("t", Expr1(TNum(1)), {<<"A", "then">>}),
     Endif,
     If("B", Both(Both(CondA, "OR", CondB), "AND", CondC)),
       SetIn("u", Expr1(TNum(1)), {<<"B", "then">>}),
     Endif >>

\* if A: $x > 1, with if B: $x > 2 nested in its then branch
IfLines(x) ==
  << If("A", Cmp(TVar(x), ">", TNum(1))),
       SetIn("a", Expr1(TNum(1)), {<<"A", "then">>}),
       If("B", Cmp(TVar(x), ">", TNum(2))),
         SetIn("t", Expr1(TNum(1)), {<<"A", "then">>, <<"B", "then">>}),
       Else,
         SetIn("t", Expr1(TNum(2)), {<<"A", "then">>, <<"B", "else">>}),
       Endif,
     Else,
       SetIn("a", Expr1(TNum(2)), {<<"A", "else">>}),
       If("C", Cmp(TVar(x), "==", TNum(0))),
         SetIn("u", Expr1(TNum(1)), {<<"A", "else">>, <<"C", "then">>}),
       Endif,
     Endif,
     Lit("done", 1) >>

Scripts == [
  brk |-> << Lit("i", 0),
             While(Cmp(I, "<", TNum(10))),
               If("A", Cmp(I, "==", TNum(3))),
                 Break,
               Endif,
               Inc("i"),
             Endloop,
             Lit("done", 1) >>,
  brkelse |-> << Lit("i", 0),
             While(Cmp(I, "<", TNum(10))),
               If("A", Cmp(I, "!=", TNum(2))),
                 SetIn("x", Expr1(I), {<<"A", "then">>}),
               Else,
                 SetIn("t", Expr1(I), {<<"A", "else">>}),
                 Break,
               Endif,
               Inc("i"),
             Endloop,
             Lit("done", 1) >>,
  brkrep |-> << Lit("n", 0),
             Repeat(3),
               Inc("n"),
               Break,
             Endloop,
             Lit("done", 1) >>,
  cont |-> << Lit("i", 0),
             While(Cmp(I, "<", TNum(10))),
               Continue,
             Endloop,
             Lit("done", 1) >>,
  contif |-> << Lit("i", 0),
             While(Cmp(I, "<", TNum(3))),
               Inc("i"),
               If("A", Cmp(I, "==", TNum(2))),
                 Continue,
               Endif,
               Set("n", Expr1(I)),
             Endloop,
             Lit("done", 1) >>,
  cap |-> << Lit("i", 0),
             While(Cmp(I, "<", TNum(2000))),
               Inc("i"),
             Endloop >>,
  if0 |-> << Blank, Comment, Lit("x", 0) >> \o IfLines("x"),
  if2 |-> << Lit("x", 2) >> \o IfLines("x"),
  if3 |-> << Lit("x", 3) >> \o IfLines("x"),
  ifloop |-> << Lit("i", 0),
             Repeat(4),
               Comment >> \o IfLines("_index") \o << 
             Endloop >>,
  nest |-> << Lit("n", 0),
             Repeat(2),
               Repeat(3),
                 Inc("n"),
               Endloop,
             Endloop >>,
  nestw |-> << Lit("i", 0),
             While(Cmp(I, "<", TNum(2))),
               Foreach("v", <<Str("x"), Str("y")>>),
                 Inc("n"),
               Endloop,
               Inc("i"),
             Endloop >>,
  each |-> << Foreach("v", <<Str("x"), Str("y"), Str("z")>>),
               Set("t", Expr1(TVar("v"))),
             Endloop,
             Lit("done", 1) >>,
  eachnone |-> << Foreach("v", <<>>),
                   Set("t", Expr1(TVar("v"))),
                 Endloop,
                 Lit("done", 1) >>,
  eachgap |-> << Foreach("v", <<Str("x"), Str(""), Str("z")>>),
                  Set("t", Expr1(TVar("v"))),
                Endloop,
                Lit("done", 1) >>,
  divlit |-> << Lit("a", 10), Lit("x", 5),
                 Set("x", Expr2(TVar("a"), "/", TNum(0))),
                 Lit("after", 1) >>,
  divvar |-> << Lit("a", 10), Lit("b", 0),
                 Set("x", Expr2(TVar("a"), "/", TVar("b"))),
                 Lit("after", 1) >>,
  divloop |-> << Lit("a", 10), Lit("x", 5),
                  Repeat(2),
                    If("A", Cmp(TVar("_index"), "==", TNum(1))),
                      SetIn("x", Expr2(TVar("a"), "/", TVar("_index")), {<<"A", "then">>}),
                    Else,
                      SetIn("x", Expr2(TVar("a"), "/", TVar("_index")), {<<"A", "else">>}),
                    Endif,
                  Endloop,
                  Lit("after", 1) >>,
  cmpvar |-> << Lit("i", 0), Lit("n", 3),
                 If("A", Cmp(I, "<", TVar("n"))),
                   SetIn("t", Expr1(TNum(1)), {<<"A", "then">>}),
                 Endif,
                 IfElse(Cmp(I, "<", TVar("n")),
                        Set("a", Expr1(TQuoted("Y"))), Set("a", Expr1(TQuoted("N")))),
                 While(Cmp(I, "<", TVar("n"))),
                   Inc("i"),
                 Endloop,
                 Lit("done", 1) >>,
  brk1 |-> << Lit("i", 0),
              While(Cmp(I, "<", TNum(10))),
                Inc("i"),
                IfThenEndif(Cmp(I, "==", TNum(3)), Break),
              Endloop,
              PrintVar("i") >>,
  prec000 |-> PrecLines(0, 0, 0),
  prec001 |-> PrecLines(0, 0, 1),
  prec010 |-> PrecLines(0, 1, 0),
  prec011 |-> PrecLines(0, 1, 1),
  prec100 |-> PrecLines(1, 0, 0),
  prec101 |-> PrecLines(1, 0, 1),
  prec110 |-> PrecLines(1, 1, 0),
  prec111 |-> PrecLines(1, 1, 1),
  brknest |-> << Lit("i", 0),
                 While(Cmp(I, "<", TNum(3))),
                   Inc("i"),
                   If("A", Cmp(I, ">=", TNum(1))),
                     If("B", Cmp(I, "==", TNum(5))),
                       Break,
                     Endif,
                     SetIn("n", Expr1(I), {<<"A", "then">>}),
                   Endif,
                 Endloop,
                 Lit("done", 1) >>,
  contnest |-> << Lit("i", 0),
                  While(Cmp(I, "<", TNum(3))),
                    Inc("i"),
                    If("A", Cmp(I, ">=", TNum(1))),
                      If("B", Cmp(I, "==", TNum(5))),
                        Continue,
                      Endif,
                    Endif,
                    Set("n", Expr1(I)),
                  Endloop,
                  Lit("done", 1) >>,
  brkthen |-> << Lit("i", 0),
                 While(Cmp(I, "<", TNum(5))),
                   Inc("i"),
                   If("A", Cmp(I, "==", TNum(3))),
                     Break,
                     SetIn("x", Expr1(TNum(99)), {<<"A", "then">>}),
                   Endif,
                 Endloop,
                 Lit("done", 1) >>,
  contthen |-> << Repeat(2),
                    If("A", Cmp(TVar("_index"), "==", TNum(0))),
                      Continue,
                      SetIn("x", Expr1(TNum(99)), {<<"A", "then">>}),
                    Endif,
                  Endloop,
                  Lit("done", 1) >>,
  exact |-> << Lit("i", 0),
               While(Cmp(I, "<", TNum(maxIterations))),
                 Inc("i"),
               Endloop >>,
  http1 |-> << Get, Lit("after", 1) >>,
  http2 |-> << Get, Get, Extract("status", "s"), Lit("after", 1) >>,
  hdr |-> << Get, Header, Header, Extract("status", "s") >>,
  hdrchain |-> << GetHeaders(2), Extract("status", "s") >>,
  hdrif |-> << Lit("x", 1),
               If("A", Cmp(TVar("x"), "==", TNum(1))),
                 Get, Header, Header,
               Endif,
               Extract("status", "s") >>,
  hdrloop |-> << Repeat(1),
                   Get, Header, Header,
                 Endloop,
                 Extract("status", "s") >>,
  ext |-> << Extract("jsonpath", "v"), Lit("after", 1) >>,
  extreset |-> << Get, Extract("regex", "v"), Reset, Extract("status", "s"), Lit("after", 1) >>,
  andlc |-> << Lit("a", 10), Lit("b", 5),
               If("A", Both(Cmp(TVar("a"), ">", TNum(5)), "and",
                            Cmp(TVar("b"), "<", TNum(10)))),
                 SetIn("t", Expr1(TNum(1)), {<<"A", "then">>}),
               Endif >>,
  orlc |-> << Lit("a", 3), Lit("b", 5),
              If("A", Both(Cmp(TVar("a"), ">", TNum(5)), "or",
                           Cmp(TVar("b"), "<", TNum(10)))),
                SetIn("t", Expr1(TNum(1)), {<<"A", "then">>}),
              Endif >>,
  anduc |-> << Lit("a", 10), Lit("b", 5),
               If("A", Both(Cmp(TVar("a"), ">", TNum(5)), "AND",
                            Cmp(TVar("b"), "<", TNum(10)))),
                 SetIn("t", Expr1(TNum(1)), {<<"A", "then">>}),
               Endif,
               If("B", Both(Cmp(TVar("a"), ">", TNum(50)), "OR",
                            Cmp(TVar("b"), "<", TNum(10)))),
                 SetIn("u", Expr1(TNum(1)), {<<"B", "then">>}),
               Endif >>,
  contq |-> << Foreach("num", <<Str("1"), Str("2"), Str("3"), Str("4")>>),
                 If("A", Cmp(TVar("num"), "==", TQuoted("2"))),
                   Continue,
                 Endif,
                 PrintStr(<<"Number: ", "$", "num">>),
               Endloop >>,
  eqq |-> << Set("v", Expr1(TQuoted("abc"))),
             If("A", Cmp(TVar("v"), "==", TQuoted("abc"))),
               SetIn("t", Expr1(TNum(1)), {<<"A", "then">>}),
             Endif >>,
  asrttop |-> << AssertStatus(200), Lit("after", 1) >>,
  asrtbody |-> << Repeat(2),
                    AssertContains("ok", {}),
                  Endloop,
                  Lit("after", 1) >>,
  asrtif |-> << Repeat(2),
                  If("A", Cmp(TVar("_index"), "==", TNum(0))),
                    AssertContains("ok", {<<"A", "then">>}),
                  Endif,
                Endloop,
                Lit("after", 1) >>,
  asrtbrk |-> << Repeat(2),
                   If("A", Cmp(TVar("_index"), "==", TNum(0))),
                     AssertContains("break", {<<"A", "then">>}),
                   Endif,
                 Endloop,
                 Lit("after", 1) >>,
  asrtcont |-> << Repeat(2),
                    If("A", Cmp(TVar("_index"), "==", TNum(0))),
                      AssertContains("continue", {<<"A", "then">>}),
                    Endif,
                  Endloop,
                  Lit("after", 1) >>,
  brktop |-> << Lit("x", 1), Break, Lit("after", 1) >>,
  contiftop |-> << Lit("x", 1),
                   If("A", Cmp(TVar("x"), "==", TNum(1))),
                     Continue,
                   Endif,
                   Lit("after", 1) >>,
  noendif |-> << Lit("x", 1),
                 If("A", Cmp(TVar("x"), "==", TNum(1))),
                   SetIn("t", Expr1(TNum(1)), {<<"A", "then">>}) >>,
  noendloop |-> << Lit("n", 0),
                   Repeat(2),
                     Inc("n") >>,
  noendifloop |-> << Lit("x", 1),
                     Repeat(2),
                       If("A", Cmp(TVar("x"), "==", TNum(1))),
                         SetIn("t", Expr1(TNum(1)), {<<"A", "then">>}),
                     Endloop >>,
  userid |-> << Set("user", Expr1(TQuoted("bob"))),
                Set("user_id", Expr1(TNum(42))),
                Set("t", Expr1(TText(<<"$", "user", "_id">>))),
                PrintStr(<<"id=", "$", "user", "_id">>) >>,
  undefv |-> << PrintStr(<<"Value: ", "$", "undefined">>), Lit("after", 1) >>,
  twopass |-> << Set("a", Expr1(TText(<<"$", "b">>))),
                 PrintStr(<<"$", "a">>),
                 Set("b", Expr1(TQuoted("X"))),
                 PrintStr(<<"$", "a">>) >>,
  tmo |-> << GetTimeout(5000), Get, Lit("after", 1) >>,
  tmoreset |-> << GetTimeout(5000), Reset, Get >>,
  ifstatus |-> << Get,
                  If("A", Cmp(TWord("status"), "==", TNum(200))),
                    AssertContains("ok", {<<"A", "then">>}),
                  Endif,
                  Lit("after", 1) >>,
  if1lit |-> << IfElse(Cmp(TNum(5), ">", TNum(3)),
                       Set("a", Expr1(TQuoted("Y"))), Set("a", Expr1(TQuoted("N")))) >>,
  if1var |-> << Lit("x", 5),
                IfElse(Cmp(TVar("x"), ">", TNum(3)),
                       Set("a", Expr1(TQuoted("Y"))), Set("a", Expr1(TQuoted("N")))),
                IfElse(Cmp(TVar("x"), "<", TNum(3)),
                       Set("t", Expr1(TQuoted("Y"))), Set("t", Expr1(TQuoted("N")))) >>
]

ScriptIds == DOMAIN Scripts
IfLabels  == {"A", "B", "C"}

\* lines := strings.Split(code, "\n")
Code == code

----------------------------------------------------------------------------
(* Textual tests on a line *)

IsSkipped(l)  == l.k \in {"blank", "comment"}
isHTTPMethod(l) == l.k = "http"
IsIfThen(l)   == l.k = "if"                       \* "if " ... " then"
EndsWithDo(l) == l.k \in {"repeat", "while", "foreach"}   \* ... " do"
IsLoopHeader(l) == l.k \in {"repeat", "while", "foreach"}

----------------------------------------------------------------------------
(* Gathering blocks.  ls is a sequence of line numbers of Code. *)

\* ParseWithBlockSupport, the scan for then / else lines up to the matching endif:
\* j is the line looked at, nest the nesting level.  Gives the two blocks and the
\* index the scan stopped at.
RECURSIVE CollectIf(_, _, _, _, _, _)
CollectIf(ls, j, nest, inElse, thenB, elseB) ==
  IF j > Len(ls) \/ nest <= 0
  THEN [then |-> thenB, else |-> elseB, i |-> j]
  ELSE LET l == Code[ls[j]]
           add == [then |-> IF inElse THEN thenB ELSE Append(thenB, ls[j]),
                   else |-> IF inElse THEN Append(elseB, ls[j]) ELSE elseB]
       IN CASE l.k = "endif" /\ nest = 1 ->
                 [then |-> thenB, else |-> elseB, i |-> j]
            [] l.k = "endif" /\ nest # 1 ->
                 CollectIf(ls, j + 1, nest - 1, inElse, add.then, add.else)
            [] IsIfThen(l) ->
                 CollectIf(ls, j + 1, nest + 1, inElse, add.then, add.else)
            [] l.k = "else" /\ nest = 1 ->
                 CollectIf(ls, j + 1, nest, TRUE, thenB, elseB)
            [] l.k = "else" /\ nest > 1 ->
                 CollectIf(ls, j + 1, nest, inElse, add.then, add.else)
            [] l.k \in {"blank", "comment"} ->
                 CollectIf(ls, j + 1, nest, inElse, thenB, elseB)
            [] OTHER ->
                 CollectIf(ls, j + 1, nest, inElse, add.then, add.else)

\* ParseWithBlockSupport, the scan for a loop body up to the matching endloop:
\* every endloop line, blank line and comment is left out of the body.
RECURSIVE CollectLoop(_, _, _, _)
CollectLoop(ls, j, nest, body) ==
  IF j > Len(ls) \/ nest <= 0
  THEN [body |-> body, i |-> j]
  ELSE LET l == Code[ls[j]]
       IN IF l.k = "endloop" /\ nest = 1
          THEN [body |-> body, i |-> j]
          ELSE CollectLoop(ls, j + 1,
                           CASE l.k = "endloop" -> nest - 1
                             [] EndsWithDo(l)   -> nest + 1
                             [] OTHER           -> nest,
                           IF l.k \in {"blank", "endloop", "comment"}
                           THEN body ELSE Append(body, ls[j]))

\* ExtractIfBlock: the lines from startIdx to the matching endif and the index
\* of that endif; ok is FALSE when the block is not closed (nil, -1).
RECURSIVE ExtractIfBlockFrom(_, _, _, _)
ExtractIfBlockFrom(ls, j, nest, block) ==
  IF j > Len(ls) THEN [ok |-> FALSE, block |-> <<>>, endIdx |-> 0]
  ELSE LET l == Code[ls[j]]
           n == CASE IsIfThen(l)    -> nest + 1
                  [] l.k = "endif"  -> nest - 1
                  [] OTHER          -> nest
       IN IF n = 0 THEN [ok |-> TRUE, block |-> Append(block, ls[j]), endIdx |-> j]
          ELSE ExtractIfBlockFrom(ls, j + 1, n, Append(block, ls[j]))

ExtractIfBlock(ls, startIdx) == ExtractIfBlockFrom(ls, startIdx, 0, <<>>)

\* ExtractLoopBlock: the same for " do" ... endloop.
RECURSIVE ExtractLoopBlockFrom(_, _, _, _)
ExtractLoopBlockFrom(ls, j, nest, block) ==
  IF j > Len(ls) THEN [ok |-> FALSE, block |-> <<>>, endIdx |-> 0]
  ELSE LET l == Code[ls[j]]
           n == CASE EndsWithDo(l)     -> nest + 1
                  [] l.k = "endloop"   -> nest - 1
                  [] OTHER             -> nest
       IN IF n = 0 THEN [ok |-> TRUE, block |-> Append(block, ls[j]), endIdx |-> j]
          ELSE ExtractLoopBlockFrom(ls, j + 1, n, Append(block, ls[j]))

ExtractLoopBlock(ls, startIdx) == ExtractLoopBlockFrom(ls, startIdx, 0, <<>>)

\* ProcessIfBlockWithControl, the split of block[1:] into then / else lines.
RECURSIVE SplitIfBlock(_, _, _, _, _, _)
SplitIfBlock(block, j, nest, inElse, thenB, elseB) ==
  IF j > Len(block) THEN [then |-> thenB, else |-> elseB]
  ELSE LET l == Code[block[j]]
           add == [then |-> IF inElse THEN thenB ELSE Append(thenB, block[j]),
                   else |-> IF inElse THEN Append(elseB, block[j]) ELSE elseB]
       IN CASE IsIfThen(l) ->
                 SplitIfBlock(block, j + 1, nest + 1, inElse, add.then, add.else)
            [] l.k = "endif" /\ nest = 0 ->
                 [then |-> thenB, else |-> elseB]
            [] l.k = "endif" /\ nest # 0 ->
                 SplitIfBlock(block, j + 1, nest - 1, inElse, add.then, add.else)
            [] l.k = "else" /\ nest = 0 ->
                 SplitIfBlock(block, j + 1, nest, TRUE, thenB, elseB)
            [] l.k = "else" /\ nest > 0 ->
                 SplitIfBlock(block, j + 1, nest, inElse, add.then, add.else)
            [] l.k \in {"blank", "comment"} ->
                 SplitIfBlock(block, j + 1, nest, inElse, thenB, elseB)
            [] OTHER ->
                 SplitIfBlock(block, j + 1, nest, inElse, add.then, add.else)

\* Variant: the lines of both branches are executed.
BlockToExecute_Both(shouldExecute, thenBlock, elseBlock) == thenBlock \o elseBlock

\* Execute the appropriate block
BlockToExecute(shouldExecute, thenBlock, elseBlock) ==
  IF shouldExecute THEN thenBlock ELSE elseBlock

\* ProcessIfBlockWithControl, the scan of the executed block for a line that is
\* `break` or `continue`: the first such line decides.
RECURSIVE ScanForControl(_, _)
ScanForControl(block, j) ==
  IF j > Len(block) THEN "none"
  ELSE IF Code[block[j]].k = "break" THEN "break"
  ELSE IF Code[block[j]].k = "continue" THEN "continue"
  ELSE ScanForControl(block, j + 1)

----------------------------------------------------------------------------
(* Frames *)

\* fn: the function; ls, i: its lines and the index of the current one (from 1);
\* pc: where it stands; trim: its lines were trimmed by a caller.
\* lk, body, it, cnt, c, v, items: the loop ParseWithBlockSupport is running
\* (it: `iteration` / `iterations` / `idx`).  blk, endIdx: the if block
\* ProcessLoopBody is waiting for.  runs: how often the loop's body was run.
Frame(fn, ls, trim) ==
  [fn |-> fn, ls |-> ls, i |-> 1, pc |-> "line", trim |-> trim,
   lk |-> "", body |-> <<>>, it |-> 0, cnt |-> 0, c |-> <<>>, v |-> "",
   items |-> <<>>, blk |-> <<>>, endIdx |-> 0, runs |-> 0]

Top   == stack[Len(stack)]
Below == SubSeq(stack, 1, Len(stack) - 1)
Line  == Code[Top.ls[Top.i]]

Running(fn, pc) == outcome = "running" /\ stack # <<>> /\ Top.fn = fn /\ Top.pc = pc
AtLine(fn)      == Running(fn, "line") /\ Top.i <= Len(Top.ls)

Result(err, brk, cont) == [err |-> err, brk |-> brk, cont |-> cont]
NoResult == Result(NoErr, FALSE, FALSE)

NoExec == [k |-> "", v |-> "", x |-> "", noResp |-> FALSE, err |-> FALSE, out |-> "",
           p |-> <<>>, n |-> 0, timeout |-> 0, e |-> Expr1(NoTok), kind |-> "",
           pre |-> NoVariables]

NoHist == [respExists |-> FALSE, respStatus |-> 0, reqFailed |-> FALSE,
           ran |-> [id \in IfLabels |-> {}], cond |-> [id \in IfLabels |-> FALSE],
           brkDue |-> 0, broke |-> FALSE, printed |-> <<>>, assertFailed |-> FALSE,
           stray |-> FALSE, bound |-> <<>>, reqHd |-> 0,
           seen |-> [id \in IfLabels |-> <<>>], capCond |-> FALSE]

Min(a, b) == IF a < b THEN a ELSE b

\* The top function returns r to its caller; the bottom frame is the call the
\* script was handed to.
Return(r) ==
  /\ stack' = Below
  /\ ret' = r
  /\ outcome' = IF Below = <<>> THEN (IF r.err.is THEN "error" ELSE "ok") ELSE outcome
  /\ failure' = IF Below = <<>> THEN r.err ELSE failure

\* The top frame goes on as g.
Goto(g) ==
  /\ stack' = Below \o <<g>>
  /\ UNCHANGED <<ret, outcome, failure>>

\* The top frame goes on as g and calls h.
Call(g, h) ==
  /\ stack' = Below \o <<g, h>>
  /\ UNCHANGED <<ret, outcome, failure>>

\* History of one statement run by the grammar.
Ran(h, line) ==
  [h EXCEPT !.ran = [id \in IfLabels |->
                       h.ran[id] \cup {b \in {"then", "else"} : <<id, b>> \in line.own}]]

Requested(h, line, o) ==
  IF line.k = "http"
  THEN [h EXCEPT !.reqHd = line.hd,
                 !.reqFailed = ~o.ok,
                 !.respExists = IF o.ok THEN TRUE ELSE @,
                 !.respStatus = IF o.ok THEN o.status ELSE @]
  ELSE IF line.k = "reset" THEN [h EXCEPT !.respExists = FALSE, !.reqFailed = FALSE]
  ELSE h

\* The innermost loop that waits for its body: its place in the stack, or 0.
LoopDepth ==
  IF \E d \in 1..Len(stack) : stack[d].pc = "loopret"
  THEN CHOOSE d \in 1..Len(stack) :
         stack[d].pc = "loopret" /\ \A m \in (d + 1)..Len(stack) : stack[m].pc # "loopret"
  ELSE 0

\* History: a break statement is run inside a block of a while loop's body.
BreakDue(h, line) ==
  IF line.k = "break" /\ LoopDepth # 0 /\ stack[LoopDepth].lk = "while"
  THEN [h EXCEPT !.brkDue = LoopDepth]
  ELSE h

\* History: the texts returned by print statements.
Printed(h, line, r) ==
  IF line.k = "print" /\ ~r.err.is THEN [h EXCEPT !.printed = Append(@, r.p)] ELSE h

\* History: an assertion has evaluated to false.
Asserted(h, line, r) ==
  IF line.k = "assert" /\ r.err.is THEN [h EXCEPT !.assertFailed = TRUE] ELSE h

\* History: a break or continue statement has run outside every loop.
Stray(h, line) ==
  IF line.k \in {"break", "continue"} /\ LoopDepth = 0 THEN [h EXCEPT !.stray = TRUE] ELSE h

\* The text a statement expands holds a "$".
HasRef(line) ==
  \E tok \in {line.e.l, line.e.r} : tok.k = "qstr" /\ \E j \in DOMAIN tok.p : tok.p[j] = "$"

\* What is not decided by the script at a statement: the network's answer to
\* a request, and the order in which the map of variables is visited.
Outcomes(line, V) ==
  IF line.k = "http" THEN NetOutcomes
  ELSE IF HasRef(line) THEN {[NetFail EXCEPT !.ord = d] : d \in Orders(Defined(V))}
  ELSE {NetFail}

\* ParseWithContext(line) is called: the store, the context and the engine
\* change as the statement's action says.
Dispatch(line, r, o) ==
  /\ variables' = r.V
  /\ context' = r.C
  /\ engine' = r.E
  /\ lastExec' = [k |-> line.k, v |-> line.v, x |-> line.x,
                  noResp |-> ~hist.respExists, err |-> r.err.is, out |-> r.out,
                  p |-> r.p, n |-> line.n, timeout |-> r.E.timeout, e |-> line.e,
                  kind |-> r.err.kind, pre |-> variables]
  /\ hist' = Stray(Asserted(Printed(BreakDue(Requested(Ran(hist, line), line, o), line),
                                     line, r), line, r), line)

----------------------------------------------------------------------------
(* ParseWithBlockSupport *)

\* hd.ParseWithBlockSupport(code) is called on a fresh interpreter.
Start ==
  /\ outcome = "idle"
  /\ outcome' = "running"
  /\ stack' = <<Frame("PWBS", [k \in 1..Len(Code) |-> k], FALSE)>>
  /\ UNCHANGED <<sid, code, variables, context, engine, ret, failure, lastExec, hist>>

\* for i < len(lines) ends: return results, nil
PWBS_Return ==
  /\ Running("PWBS", "line") /\ Top.i > Len(Top.ls)
  /\ Return(NoResult)
  /\ UNCHANGED <<sid, code, variables, context, engine, lastExec, hist>>

\* Skip empty lines and comments
PWBS_SkipLine ==
  /\ AtLine("PWBS") /\ IsSkipped(Line)
  /\ Goto([Top EXCEPT !.i = @ + 1])
  /\ UNCHANGED <<sid, code, variables, context, engine, lastExec, hist>>

\* The look-ahead for indented header lines: the index after the last of them.
RECURSIVE HeaderEnd(_, _, _)
HeaderEnd(ls, j, trim) ==
  IF j <= Len(ls) /\ ~trim /\ Code[ls[j]].ind /\ Code[ls[j]].k = "header"
  THEN HeaderEnd(ls, j + 1, trim) ELSE j

\* An HTTP request line, joined with the header lines that follow it.
PWBS_HTTPRequest ==
  /\ AtLine("PWBS") /\ isHTTPMethod(Line)
  /\ LET j == HeaderEnd(Top.ls, Top.i + 1, Top.trim)
         fullRequest == [Line EXCEPT !.hd = @ + (j - (Top.i + 1))]
     IN \E o \in Outcomes(fullRequest, variables) :
          LET r == ParseWithContext(fullRequest, variables, context, engine, o)
          IN /\ Dispatch(fullRequest, r, o)
             /\ IF r.err.is
                THEN Return(Result(r.err, FALSE, FALSE))
                ELSE Goto([Top EXCEPT !.i = j])
  /\ UNCHANGED <<sid, code>>

\* A new evaluation of the if block labelled id, deciding shouldExecute.
Evaluated(h, id, shouldExecute) ==
  [h EXCEPT !.ran[id] = {}, !.cond[id] = shouldExecute]

\* History: the simple conditions evaluated for the header c of if block id.
Seen(h, id, c, V) == [h EXCEPT !.seen[id] = EvaluateConditionRun(c, V).seen]

\* `if C then`: evaluate, gather both blocks, run one through a recursive call.
PWBS_IfBlock ==
  /\ AtLine("PWBS") /\ ~IsSkipped(Line) /\ ~isHTTPMethod(Line) /\ IsIfThen(Line)
  /\ LET shouldExecute == EvaluateCondition(Line.c, variables)
         got == CollectIf(Top.ls, Top.i + 1, 1, FALSE, <<>>, <<>>)
         blockToExecute == BlockToExecute(shouldExecute, got.then, got.else)
     IN /\ hist' = Seen(Evaluated(hist, Line.x, shouldExecute), Line.x, Line.c, variables)
        /\ IF Len(blockToExecute) > 0
           THEN Call([Top EXCEPT !.i = got.i, !.pc = "ifret"],
                     Frame("PWBS", blockToExecute, Top.trim))
           ELSE Goto([Top EXCEPT !.i = got.i + 1])
  /\ UNCHANGED <<sid, code, variables, context, engine, lastExec>>

\* The recursive call for the block has returned.
PWBS_IfBlockReturn ==
  /\ Running("PWBS", "ifret")
  /\ IF ret.err.is
     THEN Return(Result(ret.err, FALSE, FALSE))
     ELSE Goto([Top EXCEPT !.i = @ + 1, !.pc = "line"])
  /\ UNCHANGED <<sid, code, variables, context, engine, lastExec, hist>>

NotBlock(l) == ~IsSkipped(l) /\ ~isHTTPMethod(l) /\ ~IsIfThen(l)

\* `repeat N times do`
PWBS_RepeatBlock ==
  /\ AtLine("PWBS") /\ NotBlock(Line) /\ Line.k = "repeat"
  /\ LET got == CollectLoop(Top.ls, Top.i + 1, 1, <<>>)
     IN Goto([Top EXCEPT !.i = got.i, !.pc = "loop", !.lk = "repeat", !.body = got.body,
                         !.cnt = Line.n, !.it = 0, !.runs = 0])
  /\ UNCHANGED <<sid, code, variables, context, engine, lastExec, hist>>

\* `while C do`
PWBS_WhileBlock ==
  /\ AtLine("PWBS") /\ NotBlock(Line) /\ Line.k = "while"
  /\ LET got == CollectLoop(Top.ls, Top.i + 1, 1, <<>>)
     IN Goto([Top EXCEPT !.i = got.i, !.pc = "loop", !.lk = "while", !.body = got.body,
                         !.c = Line.c, !.it = 0, !.runs = 0])
  /\ UNCHANGED <<sid, code, variables, context, engine, lastExec, hist>>

\* Get the list to iterate over: the parts of the array literal that are
\* not empty (`if item != ""`).
ForeachItems(parts) == SelectSeq(parts, LAMBDA item : item # Str(""))

\* `foreach $v in [...] do`
PWBS_ForeachBlock ==
  /\ AtLine("PWBS") /\ NotBlock(Line) /\ Line.k = "foreach"
  /\ LET got == CollectLoop(Top.ls, Top.i + 1, 1, <<>>)
     IN Goto([Top EXCEPT !.i = got.i, !.pc = "loop", !.lk = "foreach", !.body = got.body,
                         !.v = Line.v, !.items = ForeachItems(Line.items),
                         !.it = 0, !.runs = 0])
  /\ UNCHANGED <<sid, code, variables, context, engine, lastExec, hist>>

\* The loop's own test for one more pass.
LoopGoesOn(f, V) ==
  CASE f.lk = "repeat"  -> f.it < f.cnt
    [] f.lk = "while"   -> f.it < maxIterations /\ WhileCondition(f.c, V)
    [] OTHER            -> f.it < Len(f.items)

\* The variables a loop binds before a pass.
LoopBind(f, V) ==
  CASE f.lk = "repeat"  -> SetVar(SetVar(V, "_index", Num(f.it)), "_iteration", Num(f.it + 1))
    [] f.lk = "while"   -> SetVar(V, "_iteration", Num(f.it + 1))
    [] OTHER            -> SetVar(SetVar(SetVar(V, f.v, f.items[f.it + 1]),
                                         "_index", Num(f.it)), "_iteration", Num(f.it + 1))

\* The code after the loop: the error of the while cap, else skip the endloop.
LoopExceeded(f) == f.lk = "while" /\ f.it >= maxIterations

\* The loop is left (hist: a break that was due has ended it).
Left(h, depth) == IF h.brkDue = depth THEN [h EXCEPT !.brkDue = 0, !.broke = TRUE] ELSE h

\* History: the items a foreach loop has bound its variable to, pass by pass.
Bound(h, f) ==
  IF f.lk = "foreach" THEN [h EXCEPT !.bound = Append(@, f.items[f.it + 1])] ELSE h

\* History: whether the condition of the while loop f holds when the loop
\* ends with the error of the cap.
Capped(h, f, V) ==
  IF LoopExceeded(f) THEN [h EXCEPT !.capCond = WhileCondition(f.c, V)] ELSE h

\* One more pass: bind the loop variables and call ProcessLoopBody.
PWBS_LoopIterate ==
  /\ Running("PWBS", "loop") /\ LoopGoesOn(Top, variables)
  /\ variables' = LoopBind(Top, variables)
  /\ Call([Top EXCEPT !.pc = "loopret", !.runs = Min(@ + 1, maxIterations + 1)],
          Frame("PLB", Top.body, TRUE))
  /\ hist' = Bound(hist, Top)
  /\ UNCHANGED <<sid, code, context, engine, lastExec>>

\* The loop's test fails: the loop is over.
PWBS_LoopExit ==
  /\ Running("PWBS", "loop") /\ ~LoopGoesOn(Top, variables)
  /\ IF LoopExceeded(Top)
     THEN Return(Result(Err("while loop exceeded maximum iterations"), FALSE, FALSE))
     ELSE Goto([Top EXCEPT !.i = @ + 1, !.pc = "line"])
  /\ hist' = Capped(Left(hist, Len(stack)), Top, variables)
  /\ UNCHANGED <<sid, code, variables, context, engine, lastExec>>

\* What the loop does with the LoopResult of a pass: "again" (next pass) or
\* "leave", and the new value of its counter.
AfterPass(f, r) ==
  IF f.lk = "while"
  THEN CASE r.cont -> [go |-> "again", it |-> f.it]
         [] r.brk  -> [go |-> "leave", it |-> f.it]
         [] OTHER  -> [go |-> "again", it |-> f.it + 1]
  ELSE CASE r.cont -> [go |-> "again", it |-> f.it + 1]
         [] r.brk  -> [go |-> "leave", it |-> f.it]
         [] OTHER  -> [go |-> "again", it |-> f.it + 1]

\* ProcessLoopBody has returned.
PWBS_LoopBodyReturn ==
  /\ Running("PWBS", "loopret")
  /\ IF ret.err.is
     THEN /\ Return(Result(ret.err, FALSE, FALSE))
          /\ hist' = hist
     ELSE LET a == AfterPass(Top, ret)
              f == [Top EXCEPT !.it = a.it]
          IN IF a.go = "again"
             THEN Goto([f EXCEPT !.pc = "loop"]) /\ hist' = hist
             ELSE /\ hist' = Capped(Left(hist, Len(stack)), f, variables)
                  /\ IF LoopExceeded(f)
                     THEN Return(Result(Err("while loop exceeded maximum iterations"),
                                        FALSE, FALSE))
                     ELSE Goto([f EXCEPT !.i = @ + 1, !.pc = "line"])
  /\ UNCHANGED <<sid, code, variables, context, engine, lastExec>>

IsIfElseLine(l) == l.k = "ifelse"

\* The one-line `if C then X else Y`: the condition is evaluated here and one
\* of the two statements goes to the grammar.
PWBS_IfElseLine ==
  /\ AtLine("PWBS") /\ NotBlock(Line) /\ ~IsLoopHeader(Line) /\ IsIfElseLine(Line)
  /\ LET shouldExecuteThen == InlineIfCondition(Line.c, variables)
         stmt == IF shouldExecuteThen THEN Line.a[1] ELSE Line.a[2]
     IN \E o \in Outcomes(stmt, variables) :
          LET r == ParseWithContext(stmt, variables, context, engine, o)
          IN /\ Dispatch(stmt, r, o)
             /\ IF r.err.is
                THEN Return(Result(r.err, FALSE, FALSE))
                ELSE Goto([Top EXCEPT !.i = @ + 1])
  /\ UNCHANGED <<sid, code>>

\* Regular line - parse normally
PWBS_RegularLine ==
  /\ AtLine("PWBS") /\ NotBlock(Line) /\ ~IsLoopHeader(Line) /\ ~IsIfElseLine(Line)
  /\ \E o \in Outcomes(Line, variables) :
       LET r == ParseWithContext(Line, variables, context, engine, o)
       IN /\ Dispatch(Line, r, o)
          /\ IF r.err.is
             THEN Return(Result(r.err, FALSE, FALSE))
             ELSE Goto([Top EXCEPT !.i = @ + 1])
  /\ UNCHANGED <<sid, code>>

----------------------------------------------------------------------------
(* ProcessLoopBody.  The body ParseWithBlockSupport hands over holds no     *)
(* blank line, no comment and no endloop line.                              *)

\* for i < len(body) ends: return result, nil
PLB_Return ==
  /\ Running("PLB", "line") /\ Top.i > Len(Top.ls)
  /\ Return(NoResult)
  /\ UNCHANGED <<sid, code, variables, context, engine, lastExec, hist>>

\* Handle break statement
PLB_Break ==
  /\ AtLine("PLB") /\ Line.k = "break"
  /\ Return(Result(NoErr, TRUE, FALSE))
  /\ UNCHANGED <<sid, code, variables, context, engine, lastExec, hist>>

\* Handle continue statement
PLB_Continue ==
  /\ AtLine("PLB") /\ Line.k = "continue"
  /\ Return(Result(NoErr, FALSE, TRUE))
  /\ UNCHANGED <<sid, code, variables, context, engine, lastExec, hist>>

\* Handle if blocks: ExtractIfBlock, then ProcessIfBlockWithControl up to its
\* call of ParseWithBlockSupport on the block to execute.
PLB_IfBlock ==
  /\ AtLine("PLB") /\ IsIfThen(Line)
  /\ LET got == ExtractIfBlock(Top.ls, Top.i)
         shouldExecute == EvaluateCondition(Line.c, variables)
         sp == SplitIfBlock(got.block, 2, 0, FALSE, <<>>, <<>>)
         blockToExecute == BlockToExecute(shouldExecute, sp.then, sp.else)
     IN IF ~got.ok
        THEN Return(Result(Err("malformed if block"), FALSE, FALSE)) /\ hist' = hist
        ELSE /\ hist' = Seen(Evaluated(hist, Line.x, shouldExecute),
                              Line.x, Line.c, variables)
             /\ IF Len(blockToExecute) > 0
                THEN Call([Top EXCEPT !.pc = "ifret", !.blk = blockToExecute,
                                      !.endIdx = got.endIdx],
                          Frame("PWBS", blockToExecute, TRUE))
                ELSE Goto([Top EXCEPT !.i = got.endIdx + 1])
  /\ UNCHANGED <<sid, code, variables, context, engine, lastExec>>

\* Variant: the lines of the executed block are not searched.
IfControl_NoScan(err, blockToExecute) ==
  IF err.is /\ ~err.brk /\ ~err.cont
  THEN Result(err, FALSE, FALSE)
  ELSE Result(NoErr, err.brk, err.cont)

\* ProcessIfBlockWithControl after the block has run: an error whose message
\* holds "break" / "continue" becomes the flag, any other error is returned;
\* without error the lines of the block are searched for break / continue.
IfControl(err, blockToExecute) ==
  IF err.is
  THEN CASE err.brk  -> Result(NoErr, TRUE, FALSE)
         [] err.cont -> Result(NoErr, FALSE, TRUE)
         [] OTHER    -> Result(err, FALSE, FALSE)
  ELSE LET found == ScanForControl(blockToExecute, 1)
       IN Result(NoErr, found = "break", found = "continue")

\* The block has run: return on an error or a flag, else go on after the endif.
PLB_IfBlockReturn ==
  /\ Running("PLB", "ifret")
  /\ LET r == IfControl(ret.err, Top.blk)
     IN IF r.err.is \/ r.brk \/ r.cont
        THEN Return(r)
        ELSE Goto([Top EXCEPT !.i = Top.endIdx + 1, !.pc = "line"])
  /\ UNCHANGED <<sid, code, variables, context, engine, lastExec, hist>>

\* Handle nested loops: ExtractLoopBlock finds no endloop in the body.
PLB_NestedLoop ==
  /\ AtLine("PLB") /\ Line.k \notin {"break", "continue"} /\ ~IsIfThen(Line)
  /\ IsLoopHeader(Line)
  /\ ~ExtractLoopBlock(Top.ls, Top.i).ok
  /\ Return(Result(Err("malformed loop block"), FALSE, FALSE))
  /\ UNCHANGED <<sid, code, variables, context, engine, lastExec, hist>>

\* Process regular line
PLB_RegularLine ==
  /\ AtLine("PLB") /\ Line.k \notin {"break", "continue"} /\ ~IsIfThen(Line)
  /\ ~IsLoopHeader(Line)
  /\ \E o \in Outcomes(Line, variables) :
       LET r == ParseWithContext(Line, variables, context, engine, o)
       IN /\ Dispatch(Line, r, o)
          /\ IF r.err.is
             THEN Return(Result(r.err, FALSE, FALSE))
             ELSE Goto([Top EXCEPT !.i = @ + 1])
  /\ UNCHANGED <<sid, code>>

----------------------------------------------------------------------------
(* The interpreter *)

\* NewHTTPDSLv3(), and the script it is about to be given
Init ==
  /\ sid \in ScriptIds
  /\ code = Scripts[sid]
  /\ stack = <<>>
  /\ variables = NoVariables
  /\ context = NoContext
  /\ engine = NewHTTPEngine
  /\ ret = NoResult
  /\ outcome = "idle"
  /\ failure = NoErr
  /\ lastExec = NoExec
  /\ hist = NoHist

Next ==
  \/ Start
  \/ PWBS_Return
  \/ PWBS_SkipLine
  \/ PWBS_HTTPRequest
  \/ PWBS_IfBlock
  \/ PWBS_IfBlockReturn
  \/ PWBS_RepeatBlock
  \/ PWBS_WhileBlock
  \/ PWBS_ForeachBlock
  \/ PWBS_LoopIterate
  \/ PWBS_LoopExit
  \/ PWBS_LoopBodyReturn
  \/ PWBS_IfElseLine
  \/ PWBS_RegularLine
  \/ PLB_Return
  \/ PLB_Break
  \/ PLB_Continue
  \/ PLB_IfBlock
  \/ PLB_IfBlockReturn
  \/ PLB_NestedLoop
  \/ PLB_RegularLine

Spec == Init /\ [][Next]_vars

----------------------------------------------------------------------------
(* Properties *)

Finished == outcome \in {"ok", "error"}

\* C1: once a break statement has run in an if block of a while loop's body,
\* the loop is still in that same pass until it is left: it starts no further
\* pass, and the script goes on after the endloop and ends without error.  The
\* example script ends with $i equal to 3.
C1_BreakInIfEndsWhile ==
  /\ hist.brkDue # 0 =>
       /\ outcome = "running"
       /\ Len(stack) >= hist.brkDue
       /\ stack[hist.brkDue].lk = "while"
       /\ stack[hist.brkDue].pc = "loopret"
  /\ (Finished /\ sid \in {"brk", "brkelse"}) =>
       /\ outcome = "ok"
       /\ hist.broke
       /\ variables["done"] = Num(1)
  /\ (Finished /\ sid = "brk") => variables["i"] = Num(3)

C1_Witness ==
  /\ sid = "brk" /\ outcome = "ok" /\ hist.broke
  /\ variables["i"] = Num(3)

\* C2: no while loop runs its body more than maxIterations times.
C2_WhileStopsAtCap ==
  \A d \in 1..Len(stack) : stack[d].lk = "while" => stack[d].runs <= maxIterations

\* C3: since the last evaluation of an if block, statements have run from its
\* then branch only if its condition was true and from its else branch only if
\* it was false, never from both; a block with two branches has run one.
C3_OneBranchPerEvaluation ==
  /\ \A id \in IfLabels :
       hist.ran[id] \subseteq (IF hist.cond[id] THEN {"then"} ELSE {"else"})
  /\ (Finished /\ sid \in {"if0", "if2", "if3"}) =>
       /\ outcome = "ok"
       /\ hist.ran["A"] = (IF hist.cond["A"] THEN {"then"} ELSE {"else"})

C3_Witness ==
  /\ sid = "ifloop" /\ Len(stack) >= 4
  /\ hist.cond["A"] /\ hist.ran["A"] = {"then"}
  /\ ~hist.cond["B"] /\ hist.ran["B"] = {"else"}

\* C4: a script with a loop written directly in the body of another loop runs
\* without error, and repeat 2 of repeat 3 runs the inner body 6 times.
C4_NestedLoopsRun ==
  /\ sid \in {"nest", "nestw"} => outcome # "error"
  /\ (sid = "nest" /\ outcome = "ok") => variables["n"] = Num(6)

\* C5: when ParseWithBlockSupport has returned, and when a loop has been left
\* through a break, the context flags break and continue are both unset.
C5_FlagsUnsetAfterLoop ==
  (Finished \/ hist.broke) => (~context.break /\ ~context.continue)

\* C6: a request that fails in the network makes ParseWithBlockSupport return
\* no error, and the statement after the request is executed.
C6_NetworkErrorNotReturned ==
  /\ outcome = "error" => failure.kind # "request failed"
  /\ (Finished /\ sid = "http1") => variables["after"] = Num(1)

\* C7: after a request that failed in the network the snapshot has status 0
\* and no body.
C7_SnapshotZeroAfterFailure ==
  hist.reqFailed => (engine.status = 0 /\ engine.body = "")

C9_ExtractStatusIsLastStatus ==
  (lastExec.k = "extract" /\ lastExec.x = "status" /\ ~lastExec.noResp) =>
    variables[lastExec.v] = Num(hist.respStatus)

\* C10: `if 5 > 3 then set $a "Y" else set $a "N"` leaves $a equal to "Y".
C10_InlineIfLiteralLeft ==
  (Finished /\ sid = "if1lit") => variables["a"] = Str("Y")

\* C11: when the script with `if status == 200 then` / `assert response
\* contains "ok"` / `endif` after a request has ended, the then branch was
\* taken exactly if the response's status is 200, and after a 200 response
\* whose body lacks "ok" the script has failed.
C11_IfStatusFollowsResponse ==
  (Finished /\ sid = "ifstatus" /\ hist.respExists) =>
    /\ hist.cond["A"] <=> (hist.respStatus = 200)
    /\ (hist.respStatus = 200 /\ engine.body # "ok") => outcome = "error"

\* C12: the scripts whose if header joins two comparisons with lowercase
\* `and` (both true) and with lowercase `or` (the second true) take the then
\* branch.
C12_LowercaseCombinators ==
  (Finished /\ sid \in {"andlc", "orlc"}) =>
    (hist.cond["A"] /\ variables["t"] = Num(1))

\* C13: `$v == "abc"` is true when $v holds abc, and in the foreach over
\* "1", "2", "3", "4" with `if $num == "2" then continue` the print has run
\* for the items 1, 3 and 4 only.
C13_QuotedLiteralEquality ==
  /\ (Finished /\ sid = "eqq") => (hist.cond["A"] /\ variables["t"] = Num(1))
  /\ (Finished /\ sid = "contq") =>
       hist.printed = << <<"Number: ", "1">>, <<"Number: ", "3">>, <<"Number: ", "4">> >>

\* C14: once an assertion has evaluated to false, no further statement is
\* run and ParseWithBlockSupport does not return successfully.
C14_FailedAssertionStopsScript ==
  hist.assertFailed =>
    /\ lastExec.k = "assert" /\ lastExec.err
    /\ outcome # "ok"

\* C15: when a break or continue statement has run outside every loop,
\* ParseWithBlockSupport does not return successfully.
C15_StrayControlIsError ==
  hist.stray => outcome # "ok"

\* The script has more `if .. then` lines than endif lines, or more loop
\* headers than endloop lines: some block of it is not closed.
Unbalanced(ls) ==
  \/ Cardinality({j \in DOMAIN ls : IsIfThen(ls[j])})
       > Cardinality({j \in DOMAIN ls : ls[j].k = "endif"})
  \/ Cardinality({j \in DOMAIN ls : IsLoopHeader(ls[j])})
       > Cardinality({j \in DOMAIN ls : ls[j].k = "endloop"})

\* C16: a script with a block that is not closed makes ParseWithBlockSupport
\* return an error about the structure.
C16_UnclosedBlockIsError ==
  (Finished /\ Unbalanced(Code)) =>
    /\ outcome = "error"
    /\ failure.kind \in {"malformed if block", "malformed loop block"}

\* C17: with `user` = bob and `user_id` = 42 defined, `set $t "$user_id"`
\* always leaves $t equal to the text of user_id, and the print of
\* "id=$user_id" always gives id=42.
C17_ExpansionIndependentOfOrder ==
  /\ (sid = "userid" /\ Has(variables, "t")) => variables["t"] = Str("42")
  /\ (sid = "userid" /\ Finished) => hist.printed = << <<"id=", "42">> >>

\* C18: `print "Value: $undefined"`, with no variable `undefined`, raises no
\* error and gives the text `Value: `.
C18_UndefinedExpandsToEmpty ==
  (sid = "undefv" /\ Finished) =>
    /\ outcome = "ok"
    /\ hist.printed = << <<"Value: ">> >>

\* C19: with $a holding the text `$b`, a print of "$a" gives the text `$b`,
\* before a variable b exists and after.
C19_ExpansionSinglePass ==
  (sid = "twopass" /\ Finished) =>
    hist.printed = << <<"$", "b">>, <<"$", "b">> >>

\* C20: a request without a timeout option runs with a client timeout of
\* DefaultTimeout, also after a request that carried a timeout option.
C20_TimeoutPerRequest ==
  (lastExec.k = "http" /\ lastExec.n = 0) => lastExec.timeout = DefaultTimeout

\* The scripts that are one foreach loop over a literal array, without break.
ForeachScripts == {"each", "eachnone", "eachgap"}

\* C21: a foreach loop without break binds its variable to the elements of
\* the array in their order, one pass per element (none for the empty array),
\* and the script ends without error.
C21_ForeachOncePerElement ==
  sid \in ForeachScripts =>
    /\ Len(hist.bound) <= Len(Code[1].items)
    /\ hist.bound = SubSeq(Code[1].items, 1, Len(hist.bound))
    /\ Finished => (outcome = "ok" /\ hist.bound = Code[1].items)

\* The last statement run was a `set` whose expression divides by zero.
DividedByZero ==
  /\ lastExec.k = "set" /\ lastExec.e.op = "/"
  /\ ValueOk(lastExec.e.l, lastExec.pre) /\ ValueOk(lastExec.e.r, lastExec.pre)
  /\ toNumber(Value(lastExec.e.r, lastExec.pre, <<>>)) = 0

C23_OneTruthValuePerCondition ==
  (Finished /\ sid = "cmpvar") =>
    /\ outcome = "ok"
    /\ hist.cond["A"] <=> variables["a"] = Str("Y")
    /\ hist.cond["A"] <=> variables["i"] = Num(3)

\* The scripts with one request and two headers, chained or on indented lines.
HeaderScripts == {"hdrchain", "hdr", "hdrif", "hdrloop"}

\* C24: a request line followed by indented header lines is sent as one
\* request with all these headers, as when the headers are chained on the
\* request line, at the top level, in an if block and in a loop body; the
\* header lines are no statements of their own.
C24_IndentedHeadersJoinRequest ==
  sid \in HeaderScripts =>
    /\ lastExec.k \in {"http", "extract"} => hist.reqHd = 2
    /\ lastExec.k \in {"", "set", "http", "extract"}
    /\ Finished => (failure.kind # "parse error" /\ (outcome = "ok" <=> ~hist.reqFailed))

\* C25: in the script brk1 the one-line `if $i == 3 then break endif` ends the
\* while loop in the pass where $i is 3, and `print $i` then prints a text
\* with 3 in it.
C25_OneLineIfBreakEndsLoop ==
  (Finished /\ sid = "brk1") =>
    /\ outcome = "ok"
    /\ variables["i"] = Num(3)
    /\ hist.printed = << <<"$", "i", " = ", "3">> >>

\* C26: the loop `while $i < 2000 do`, whose condition is still true after
\* maxIterations passes, is stopped after maxIterations passes and the script
\* ends without error.
C26_CappedLoopReturnsNoError ==
  sid = "cap" =>
    /\ \A d \in 1..Len(stack) : stack[d].runs <= maxIterations
    /\ Finished => (outcome = "ok" /\ variables["i"] = Num(maxIterations))

\* The scripts made of PrecLines, and the truth of their three comparisons.
PrecScripts == {"prec000", "prec001", "prec010", "prec011",
                "prec100", "prec101", "prec110", "prec111"}
HoldsA == variables["a"] = Num(1)
HoldsB == variables["b"] = Num(1)
HoldsC == variables["x"] = Num(1)

\* C27: `A AND B OR C` is true exactly when (A and B) or C, and `A OR B AND C`
\* exactly when A or (B and C); the comparisons are evaluated from left to
\* right, and no comparison is evaluated once the result is decided.
C27_AndBindsTighterThanOr ==
  (Finished /\ sid \in PrecScripts) =>
    /\ outcome = "ok"
    /\ hist.cond["A"] <=> ((HoldsA /\ HoldsB) \/ HoldsC)
    /\ hist.cond["B"] <=> (HoldsA \/ (HoldsB /\ HoldsC))
    /\ Has(variables, "t") <=> hist.cond["A"]
    /\ Has(variables, "u") <=> hist.cond["B"]
    /\ hist.seen["A"] = <<CondA>> \o (IF HoldsA THEN <<CondB>> ELSE <<>>)
                                  \o (IF HoldsA /\ HoldsB THEN <<>> ELSE <<CondC>>)
    /\ hist.seen["B"] = <<CondA>> \o (IF HoldsA THEN <<>> ELSE <<CondB>>)
                                  \o (IF ~HoldsA /\ HoldsB THEN <<CondC>> ELSE <<>>)

\* With A true, B and C false: `A OR B AND C` is true after A alone was
\* evaluated, and `A AND B OR C` is false after all three were.
C27_Witness ==
  /\ sid = "prec100" /\ outcome = "ok"
  /\ hist.cond["B"] /\ hist.seen["B"] = <<CondA>>
  /\ ~hist.cond["A"] /\ hist.seen["A"] = <<CondA, CondB, CondC>>

\* C28: in brknest / contnest the break (continue) line stands in a nested if
\* whose condition is never true, inside an if branch that runs in every
\* pass: no break or continue statement is ever run, so the loop makes its
\* three passes and every pass runs the statements after the nested if.
C28_UnexecutedControlIsIgnored ==
  sid \in {"brknest", "contnest"} =>
    /\ lastExec.k \notin {"break", "continue"}
    /\ Finished => /\ outcome = "ok"
                   /\ variables["i"] = Num(3)
                   /\ variables["n"] = Num(3)

\* C29: in brkthen / contthen the statement `set $x 99` follows the break
\* (continue) line in the same if branch: it is never run, $x stays
\* undefined, and the break ends the loop with $i equal to 3.
C29_NothingRunsAfterControl ==
  sid \in {"brkthen", "contthen"} =>
    /\ ~Has(variables, "x")
    /\ hist.ran["A"] = {}
    /\ (Finished /\ sid = "brkthen") => (outcome = "ok" /\ variables["i"] = Num(3))

\* The error of the cap on while loops.
Exceeded == outcome = "error" /\ failure.kind = "while loop exceeded maximum iterations"

\* C30: a script ends with the error of the cap only when the condition of
\* the loop still holds after maxIterations passes; the loop
\* `while $i < 1000 do`, whose condition is false after maxIterations passes,
\* ends without error.
C30_CapErrorOnlyIfConditionHolds ==
  /\ Exceeded => hist.capCond
  /\ (Finished /\ sid = "exact") => (outcome = "ok" /\ variables["i"] = Num(maxIterations))

====
